---- MODULE Spec2Model ----
(***************************************************************************)
(* The stock exchange of src/main.rs: NUM_PEOPLE threads trade against     *)
(* NUM_STOCKS mutex-guarded stocks, buyers that cannot be served wait on   *)
(* the stock's queue parked, sellers unpark the head of the queue, and the *)
(* main thread ends the trading day through an RwLock flag and a forced    *)
(* unpark of every thread.                                                 *)
(*                                                                         *)
(* One step of the model is one synchronisation-delimited piece of the     *)
(* code: taking a Mutex, the critical section up to the unlock,            *)
(* thread::park returning, one pass through the head of the for loop, one  *)
(* statement of main.  Everything between two such points touches only the *)
(* thread's own locals, or state guarded by the lock the thread holds.     *)
(* thread::park is modelled by its token: unpark sets it, park waits for   *)
(* it and clears it (std's park loops over spurious futex/condvar          *)
(* wake-ups, so it returns only on a token).                               *)
(***************************************************************************)
EXTENDS Integers, Sequences, FiniteSets, TLC

\* ------------------------------------------------------------------ bounds
\* The program runs 100 people on 20 stocks for 1000 iterations, starts each
\* stock at 100 shares and each person at 50 of every stock, and draws from
\* Range::new(-10, 10).  The model keeps the shape and scales the numbers.
StockShares == 1
PersonShares == 1
\* The model's Range::new(-MaxAmount, MaxAmount).
MaxAmount == 3

VARIABLES
    config,        \* the program's constants, as this run has them
    shares,        \* Stock.shares, per stock
    queue,         \* Stock.queue, per stock: sequence of PurchaseRequest
    lock,          \* owner of each stock's Mutex, or NoOne
    holdings,      \* shares_of_each_stock, per person
    pc,            \* where each person's thread is
    j,             \* the for loop's counter, per person
    amount,        \* the local `amount` (after the sell cap), 0 out of scope
    stock_index,   \* the local `stock_index`, 0 out of scope
    token,         \* the park token of each person's thread
    should_finish, \* the value inside the RwLock
    write_guard,   \* main holds the RwLockWriteGuard
    main_pc,       \* where main is
    main_i,        \* main's position in `handles`, then in `stocks`
    sum            \* main's `sum`

vars == <<config, shares, queue, lock, holdings, pc, j, amount, stock_index,
          token, should_finish, write_guard, main_pc, main_i, sum>>

\* The constants of the program.
NUM_ITERATIONS == config.iterations
NUM_PEOPLE == config.people
NUM_STOCKS == config.stocks
NUM_STARTING_SHARES_IN_STOCK_EXCHANGE == config.stock_shares
NUM_STARTING_SHARES_PERSON == config.person_shares

NoOne == 0
People == 1 .. NUM_PEOPLE
Stocks == 1 .. NUM_STOCKS

\* let between = Range::new(low, high): low inclusive, high exclusive.
Between == config.low .. (config.high - 1)

\* struct PurchaseRequest { person, amount }
PurchaseRequest(p, n) == [person |-> p, amount |-> n]

RECURSIVE SumOver(_, _)
SumOver(f, S) ==
    IF S = {} THEN 0
    ELSE LET x == CHOOSE y \in S : TRUE IN f[x] + SumOver(f, S \ {x})

\* for val in vals { sum += val; }
SumVals(vals) == SumOver(vals, DOMAIN vals)

TotalShares == SumOver(shares, Stocks)
TotalHoldings == SumOver([p \in People |-> SumVals(holdings[p])], People)

\* The total main prints as expected.
Expected ==
    NUM_STOCKS * NUM_STARTING_SHARES_IN_STOCK_EXCHANGE
        + NUM_PEOPLE * NUM_STOCKS * NUM_STARTING_SHARES_PERSON

\* ------------------------------------------------------------------- Init
Config(nPeople, nStocks, nIterations, stockShares, personShares, low, high) ==
    [people |-> nPeople, stocks |-> nStocks, iterations |-> nIterations,
     stock_shares |-> stockShares, person_shares |-> personShares,
     low |-> low, high |-> high]

\* The runs of the model: three people on one stock, two people on two.
Configs ==
    { Config(3, 1, 2, StockShares, PersonShares, -MaxAmount, MaxAmount),
      Config(2, 2, 2, StockShares, PersonShares, -MaxAmount, MaxAmount) }

InitWith(c) ==
    /\ config = c
    /\ shares = [s \in 1 .. c.stocks |-> c.stock_shares]
    /\ queue = [s \in 1 .. c.stocks |-> << >>]
    /\ lock = [s \in 1 .. c.stocks |-> NoOne]
    /\ holdings = [p \in 1 .. c.people |->
                      [s \in 1 .. c.stocks |-> c.person_shares]]
    /\ pc = [p \in 1 .. c.people |-> "loop"]
    /\ j = [p \in 1 .. c.people |-> 0]
    /\ amount = [p \in 1 .. c.people |-> 0]
    /\ stock_index = [p \in 1 .. c.people |-> 0]
    /\ token = [p \in 1 .. c.people |-> FALSE]
    /\ should_finish = FALSE
    /\ write_guard = FALSE
    /\ main_pc = "sleep"
    /\ main_i = 1
    /\ sum = 0

Init == \E c \in Configs : InitWith(c)

\* ------------------------------------------------------------- the person
\* The sell without its cap.
CapSellUncapped(amt, have) == amt

\* Cap the amount they can sell to how much they have.
CapSell(amt, have) == IF -amt > have THEN -have ELSE amt

\* The for loop is exhausted: the closure returns shares_of_each_stock.
LoopEnd(p) ==
    /\ pc[p] = "loop"
    /\ j[p] = NUM_ITERATIONS
    /\ pc' = [pc EXCEPT ![p] = "returned"]
    /\ UNCHANGED <<shares, queue, lock, holdings, j, amount, stock_index, token,
                   should_finish, write_guard, main_pc, main_i, sum, config>>

\* What a drawn order (amt, s) leads to, once the flag was read as false.
Order(p, amt, s) ==
    IF amt < 0 THEN
        /\ amount' = [amount EXCEPT ![p] = CapSell(amt, holdings[p][s])]
        /\ stock_index' = [stock_index EXCEPT ![p] = s]
        /\ pc' = [pc EXCEPT ![p] = "sell"]
        /\ j' = j
    ELSE IF amt > 0 THEN
        /\ amount' = [amount EXCEPT ![p] = amt]
        /\ stock_index' = [stock_index EXCEPT ![p] = s]
        /\ pc' = [pc EXCEPT ![p] = "buy"]
        /\ j' = j
    ELSE
        /\ j' = [j EXCEPT ![p] = @ + 1]
        /\ UNCHANGED <<amount, stock_index, pc>>

\* The head of one iteration: should_finish.read() needs the RwLock free of a
\* writer; true breaks out of the loop, false draws the order.
Iterate(p) ==
    /\ pc[p] = "loop"
    /\ j[p] < NUM_ITERATIONS
    /\ ~write_guard
    /\ IF should_finish
       THEN /\ pc' = [pc EXCEPT ![p] = "returned"]
            /\ UNCHANGED <<j, amount, stock_index>>
       ELSE \E amt \in Between, s \in Stocks : Order(p, amt, s)
    /\ UNCHANGED <<shares, queue, lock, holdings, token, should_finish,
                   write_guard, main_pc, main_i, sum, config>>

\* The trade that takes the shares from the stock and forgets the person's.
TradeLosesShares(p, s, amt) ==
    /\ shares' = [shares EXCEPT ![s] = @ - amt]
    /\ holdings' = holdings

\* stock.shares -= amount; shares_of_each_stock[stock_index] += amount;
\* under the stock's lock (the sell, the immediate buy and the retry).
Trade(p, s, amt) ==
    /\ shares' = [shares EXCEPT ![s] = @ - amt]
    /\ holdings' = [holdings EXCEPT ![p][s] = @ + amt]

\* The MutexGuard `stock` goes out of scope.
Unlock(s) == lock' = [lock EXCEPT ![s] = NoOne]

\* stocks[stock_index].lock() at one of its three places.
Lock(p, from, to) ==
    /\ pc[p] = from
    /\ lock[stock_index[p]] = NoOne
    /\ lock' = [lock EXCEPT ![stock_index[p]] = p]
    /\ pc' = [pc EXCEPT ![p] = to]
    /\ UNCHANGED <<shares, queue, holdings, j, amount, stock_index, token,
                   should_finish, write_guard, main_pc, main_i, sum, config>>

SellLock(p) == Lock(p, "sell", "selling")
BuyLock(p) == Lock(p, "buy", "buying")
RetryLock(p) == Lock(p, "retry", "retrying")

\* The scan that goes on past a request it cannot serve.
RECURSIVE WakeScanSkips(_, _, _, _)
WakeScanSkips(q, sh, estimated_stocks_left, woken) ==
    IF Len(q) > 0 /\ estimated_stocks_left > 0
    THEN LET r == Head(q) IN
         IF r.amount <= sh
         THEN WakeScanSkips(Tail(q), sh, estimated_stocks_left - r.amount,
                            Append(woken, r.person))
         ELSE LET rest == WakeScanSkips(Tail(q), sh, estimated_stocks_left,
                                        woken)
              IN [queue |-> <<r>> \o rest.queue, woken |-> rest.woken]
    ELSE [queue |-> q, woken |-> woken]

\* The scan that goes on while the front request fits the shares, whatever
\* the estimate says.
RECURSIVE WakeScanIgnoresEstimate(_, _, _, _)
WakeScanIgnoresEstimate(q, sh, estimated_stocks_left, woken) ==
    IF Len(q) > 0
    THEN LET r == Head(q) IN
         IF r.amount <= sh
         THEN WakeScanIgnoresEstimate(Tail(q), sh,
                                      estimated_stocks_left - r.amount,
                                      Append(woken, r.person))
         ELSE [queue |-> q, woken |-> woken]
    ELSE [queue |-> q, woken |-> woken]

\* The scan that pops the request it cannot serve and never pushes it back.
RECURSIVE WakeScanDropsBlocked(_, _, _, _)
WakeScanDropsBlocked(q, sh, estimated_stocks_left, woken) ==
    IF Len(q) > 0 /\ estimated_stocks_left > 0
    THEN LET r == Head(q) IN
         IF r.amount <= sh
         THEN WakeScanDropsBlocked(Tail(q), sh,
                                   estimated_stocks_left - r.amount,
                                   Append(woken, r.person))
         ELSE [queue |-> Tail(q), woken |-> woken]
    ELSE [queue |-> q, woken |-> woken]

\* The scan that unparks the owner of the front request and leaves the
\* request where it is.
WakeScanKeepsFront(q, sh, estimated_stocks_left, woken) ==
    IF Len(q) > 0 /\ estimated_stocks_left > 0 /\ Head(q).amount <= sh
    THEN [queue |-> q, woken |-> Append(woken, Head(q).person)]
    ELSE [queue |-> q, woken |-> woken]

\* The seller's scan of the queue: what is left of the queue and the people
\* unparked, in the order of their unpark.
RECURSIVE WakeScan(_, _, _, _)
WakeScan(q, sh, estimated_stocks_left, woken) ==
    IF Len(q) > 0 /\ estimated_stocks_left > 0
    THEN LET r == Head(q) IN
         IF r.amount <= sh
         THEN WakeScan(Tail(q), sh, estimated_stocks_left - r.amount,
                       Append(woken, r.person))
         ELSE [queue |-> q, woken |-> woken]
    ELSE [queue |-> q, woken |-> woken]

Range(seq) == {seq[i] : i \in DOMAIN seq}

\* The scan that pops the requests and forgets the unpark.
UnparkedNobody(woken) == token

\* r.person.unpark() for every request the scan popped: the tokens after it.
Unparked(woken) ==
    [q \in People |-> IF q \in Range(woken) THEN TRUE ELSE token[q]]

\* The sell branch under the lock, up to the unlock at the end of the block.
Sell(p) ==
    /\ pc[p] = "selling"
    /\ LET s == stock_index[p] IN
       /\ Trade(p, s, amount[p])
       /\ LET scan == WakeScan(queue[s], shares'[s], shares'[s], << >>) IN
          /\ queue' = [queue EXCEPT ![s] = scan.queue]
          /\ token' = Unparked(scan.woken)
       /\ Unlock(s)
    /\ pc' = [pc EXCEPT ![p] = "loop"]
    /\ j' = [j EXCEPT ![p] = @ + 1]
    /\ amount' = [amount EXCEPT ![p] = 0]
    /\ stock_index' = [stock_index EXCEPT ![p] = 0]
    /\ UNCHANGED <<should_finish, write_guard, main_pc, main_i, sum, config>>

\* The first attempt that always gets on the queue.
ShouldParkAlways(q, sh, amt) == TRUE

\* The first attempt that looks at the shares alone and jumps the line.
ShouldParkJumps(q, sh, amt) == sh < amt

\* The first attempt to buy: does the person get on the queue?
ShouldPark(q, sh, amt) == IF Len(q) > 0 THEN TRUE ELSE sh < amt

\* stock.queue.push_back(PurchaseRequest { person: thread::current(), amount })
PushBack(q, r) == Append(q, r)

\* The buy without its scoped block: a parking buyer keeps the guard.
ScopeEndAfterPark(s, should_park) ==
    IF should_park THEN UNCHANGED lock ELSE Unlock(s)

\* The scoped block of the buy branch ends: the guard is dropped before the
\* `if should_park` that follows it.
ScopeEnd(s, should_park) == Unlock(s)

\* The scoped block of the buy branch, up to the unlock at its end.
Buy(p) ==
    /\ pc[p] = "buying"
    /\ LET s == stock_index[p]
           should_park == ShouldPark(queue[s], shares[s], amount[p])
       IN /\ IF should_park
             THEN /\ queue' = [queue EXCEPT
                        ![s] = PushBack(@, PurchaseRequest(p, amount[p]))]
                  /\ pc' = [pc EXCEPT ![p] = "park"]
                  /\ UNCHANGED <<shares, holdings, j, amount, stock_index>>
             ELSE /\ Trade(p, s, amount[p])
                  /\ pc' = [pc EXCEPT ![p] = "loop"]
                  /\ j' = [j EXCEPT ![p] = @ + 1]
                  /\ amount' = [amount EXCEPT ![p] = 0]
                  /\ stock_index' = [stock_index EXCEPT ![p] = 0]
                  /\ UNCHANGED queue
          /\ ScopeEnd(s, should_park)
    /\ UNCHANGED <<token, should_finish, write_guard, main_pc, main_i, sum,
                   config>>

\* thread::park() returns: it consumes the token.
Park(p) ==
    /\ pc[p] = "park"
    /\ token[p]
    /\ token' = [token EXCEPT ![p] = FALSE]
    /\ pc' = [pc EXCEPT ![p] = "retry"]
    /\ UNCHANGED <<shares, queue, lock, holdings, j, amount, stock_index,
                   should_finish, write_guard, main_pc, main_i, sum, config>>

\* The second attempt that takes the wake for the shares.
RetryBuysOnWake(sh, amt) == TRUE

\* The second attempt, after the wake: can the person buy now?
RetryBuys(sh, amt) == sh >= amt

\* The retry that, finding too few shares, goes back to wait for another wake.
RetryWaitsAgain(p) ==
    /\ pc[p] = "retrying"
    /\ LET s == stock_index[p] IN
       /\ IF RetryBuys(shares[s], amount[p])
          THEN /\ Trade(p, s, amount[p])
               /\ pc' = [pc EXCEPT ![p] = "loop"]
               /\ j' = [j EXCEPT ![p] = @ + 1]
               /\ amount' = [amount EXCEPT ![p] = 0]
               /\ stock_index' = [stock_index EXCEPT ![p] = 0]
          ELSE /\ pc' = [pc EXCEPT ![p] = "park"]
               /\ UNCHANGED <<shares, holdings, j, amount, stock_index>>
       /\ Unlock(s)
    /\ UNCHANGED <<queue, token, should_finish, write_guard, main_pc, main_i,
                   sum, config>>

\* The retry under the re-taken lock, up to the end of the iteration.
Retry(p) ==
    /\ pc[p] = "retrying"
    /\ LET s == stock_index[p] IN
       /\ IF RetryBuys(shares[s], amount[p])
          THEN Trade(p, s, amount[p])
          ELSE UNCHANGED <<shares, holdings>>
       /\ Unlock(s)
    /\ pc' = [pc EXCEPT ![p] = "loop"]
    /\ j' = [j EXCEPT ![p] = @ + 1]
    /\ amount' = [amount EXCEPT ![p] = 0]
    /\ stock_index' = [stock_index EXCEPT ![p] = 0]
    /\ UNCHANGED <<queue, token, should_finish, write_guard, main_pc, main_i,
                   sum, config>>

\* ------------------------------------------------------------------- main
\* The end of the day that takes the write guard and stores nothing.
EndOfDayStoresNothing ==
    /\ main_pc = "sleep"
    /\ write_guard' = TRUE
    /\ main_pc' = IF People = {} THEN "tally" ELSE "unpark"
    /\ UNCHANGED <<shares, queue, lock, holdings, pc, j, amount, stock_index,
                   token, should_finish, main_i, sum, config>>

\* The end of the day without the flag: main goes on to unpark and join.
EndOfDayUnsignalled ==
    /\ main_pc = "sleep"
    /\ main_pc' = IF People = {} THEN "tally" ELSE "unpark"
    /\ UNCHANGED <<shares, queue, lock, holdings, pc, j, amount, stock_index,
                   token, should_finish, write_guard, main_i, sum, config>>

\* The sleep is over: should_finish.write() and *should_finish = true.  The
\* guard is bound to a variable of main and lives until main returns.
EndOfDay ==
    /\ main_pc = "sleep"
    /\ should_finish' = TRUE
    /\ write_guard' = TRUE
    /\ main_pc' = IF People = {} THEN "tally" ELSE "unpark"
    /\ UNCHANGED <<shares, queue, lock, holdings, pc, j, amount, stock_index,
                   token, main_i, sum, config>>

\* The loop over the handles that joins without the unpark.
UnparkForgotten ==
    /\ main_pc = "unpark"
    /\ main_pc' = "join"
    /\ UNCHANGED <<shares, queue, lock, holdings, pc, j, amount, stock_index,
                   token, should_finish, write_guard, main_i, sum, config>>

\* handle.thread().unpark()
Unpark ==
    /\ main_pc = "unpark"
    /\ token' = [token EXCEPT ![main_i] = TRUE]
    /\ main_pc' = "join"
    /\ UNCHANGED <<shares, queue, lock, holdings, pc, j, amount, stock_index,
                   should_finish, write_guard, main_i, sum, config>>

\* handle.join() and the sum of its values.
Join ==
    /\ main_pc = "join"
    /\ pc[main_i] = "returned"
    /\ sum' = sum + SumVals(holdings[main_i])
    /\ IF main_i + 1 \in People
       THEN main_i' = main_i + 1 /\ main_pc' = "unpark"
       ELSE main_i' = 1 /\ main_pc' = "tally"
    /\ UNCHANGED <<shares, queue, lock, holdings, pc, j, amount, stock_index,
                   token, should_finish, write_guard, config>>

\* stock.lock().unwrap().shares, added to the sum.
Tally ==
    /\ main_pc = "tally"
    /\ main_i \in Stocks
    /\ lock[main_i] = NoOne
    /\ sum' = sum + shares[main_i]
    /\ main_i' = main_i + 1
    /\ UNCHANGED <<shares, queue, lock, holdings, pc, j, amount, stock_index,
                   token, should_finish, write_guard, main_pc, config>>

\* The report is printed and main returns, dropping the write guard.
Report ==
    /\ main_pc = "tally"
    /\ main_i \notin Stocks
    /\ main_pc' = "finished"
    /\ write_guard' = FALSE
    /\ UNCHANGED <<shares, queue, lock, holdings, pc, j, amount, stock_index,
                   token, should_finish, main_i, sum, config>>

\* ------------------------------------------------------------------- Next
Next ==
    \/ \E p \in People : LoopEnd(p)
    \/ \E p \in People : Iterate(p)
    \/ \E p \in People : SellLock(p)
    \/ \E p \in People : Sell(p)
    \/ \E p \in People : BuyLock(p)
    \/ \E p \in People : Buy(p)
    \/ \E p \in People : Park(p)
    \/ \E p \in People : RetryLock(p)
    \/ \E p \in People : Retry(p)
    \/ EndOfDay
    \/ Unpark
    \/ Join
    \/ Tally
    \/ Report

Spec == Init /\ [][Next]_vars

\* Two people on one stock, for the behaviours that never end.
LiveConfig == Config(2, 1, 2, StockShares, PersonShares, -MaxAmount, MaxAmount)
LivePeople == 1 .. LiveConfig.people

PersonStep(p) ==
    \/ LoopEnd(p)
    \/ Iterate(p)
    \/ SellLock(p)
    \/ Sell(p)
    \/ BuyLock(p)
    \/ Buy(p)
    \/ Park(p)
    \/ RetryLock(p)
    \/ Retry(p)

MainStep == EndOfDay \/ Unpark \/ Join \/ Tally \/ Report

\* Every thread that can run does run: the scheduler starves none.
FairSpec ==
    /\ InitWith(LiveConfig)
    /\ [][Next]_vars
    /\ \A p \in LivePeople : WF_vars(PersonStep(p))
    /\ WF_vars(MainStep)

\* The scenario of one stock at 10 shares and two people with 5 each, under
\* the program's own Range::new(-10, 10).
SpecScenario == InitWith(Config(2, 1, 2, 10, 5, -10, 10)) /\ [][Next]_vars

\* The scenario of one stock at 0 shares.
SpecSoldOut == InitWith(Config(2, 1, 2, 0, 5, -10, 10)) /\ [][Next]_vars

\* ----------------------------------------------------------------- claims
\* C1 (conservation): in every reachable state the shares of all stocks plus
\* the holdings of all people over all stocks equal the initial total, and
\* once main has joined every thread and added up every stock, its sum is
\* that total.
C1_Conservation ==
    /\ TotalShares + TotalHoldings = Expected
    /\ main_pc = "finished" => sum = Expected

\* C1 witness: main has finished its sum after shares moved both ways.
C1_Witness ==
    /\ main_pc = "finished"
    /\ \E s \in Stocks : shares[s] > NUM_STARTING_SHARES_IN_STOCK_EXCHANGE
    /\ \E p \in People, s \in Stocks :
           holdings[p][s] > NUM_STARTING_SHARES_PERSON

\* C3 (no negative inventory): no stock's shares and no person's holdings of
\* any stock are ever below zero.
C3_NoNegativeInventory ==
    /\ \A s \in Stocks : shares[s] >= 0
    /\ \A p \in People : \A s \in Stocks : holdings[p][s] >= 0

\* C3 witness: a stock is sold out, a person has sold all it had of it, and a
\* woken buyer is about to retry an amount the stock no longer has.
C3_Witness ==
    \E s \in Stocks :
        /\ shares[s] = 0
        /\ \E p \in People : holdings[p][s] = 0
        /\ \E p \in People :
               pc[p] = "retrying" /\ stock_index[p] = s /\ amount[p] > 0

\* C8 (strict FIFO on the first attempt): a first attempt to buy a positive
\* amount on a stock whose queue is not empty takes no shares, appends its
\* request at the back of the queue and parks, even when shares >= amount; on
\* an empty queue it buys at once when shares >= amount and otherwise gets on
\* the queue and parks.
C8_StrictFifoFirstAttempt ==
    [][\A p \in People :
        (pc[p] = "buying" /\ pc'[p] # "buying") =>
            LET s == stock_index[p]
                amt == amount[p]
                enqueued ==
                    /\ shares' = shares
                    /\ holdings' = holdings
                    /\ queue' = [queue EXCEPT
                           ![s] = Append(@, [person |-> p, amount |-> amt])]
                    /\ pc'[p] = "park"
                bought ==
                    /\ shares' = [shares EXCEPT ![s] = @ - amt]
                    /\ holdings' = [holdings EXCEPT ![p][s] = @ + amt]
                    /\ queue' = queue
                    /\ pc'[p] = "loop"
            IN /\ amt > 0
               /\ IF Len(queue[s]) > 0 THEN enqueued
                  ELSE IF shares[s] >= amt THEN bought
                  ELSE enqueued]_vars

\* C8 witness: a person waits at the back of a queue of two although the
\* stock has the shares it asked for.
C8_Witness ==
    \E p \in People :
        /\ pc[p] = "park"
        /\ ~token[p]
        /\ LET q == queue[stock_index[p]] IN
           /\ Len(q) >= 2
           /\ q[Len(q)] = [person |-> p, amount |-> amount[p]]
           /\ shares[stock_index[p]] >= amount[p]

\* C9 (sell cap): a drawn sell larger than the person's holdings of the stock
\* (holdings of 0 included) is clamped to the holdings and a sell within the
\* holdings keeps its size; the clamped amount and the holdings stay as they
\* are until the sell; the sell moves exactly that amount, so a clamped sell
\* leaves the person with 0 and the stock with the person's former holdings
\* more.
C9_SellCap ==
    [][\A p \in People :
        /\ (pc[p] = "loop" /\ pc'[p] = "sell")
               => \A drawn \in Between, s \in Stocks :
                      (drawn < 0 /\ Order(p, drawn, s))
                          => /\ stock_index'[p] = s
                             /\ amount'[p] = IF -drawn > holdings[p][s]
                                             THEN -holdings[p][s]
                                             ELSE drawn
        /\ (pc[p] \in {"sell", "selling"} /\ pc'[p] \in {"sell", "selling"})
               => /\ amount'[p] = amount[p]
                  /\ stock_index'[p] = stock_index[p]
                  /\ holdings'[p] = holdings[p]
        /\ (pc[p] = "selling" /\ pc'[p] # "selling")
               => LET s == stock_index[p] IN
                  /\ amount[p] <= 0
                  /\ shares'[s] = shares[s] - amount[p]
                  /\ holdings'[p][s] = holdings[p][s] + amount[p]
                  /\ holdings'[p][s] >= 0
                  /\ (-amount[p] = holdings[p][s])
                         => /\ holdings'[p][s] = 0
                            /\ shares'[s] = shares[s] + holdings[p][s]]_vars

\* C9 witness: a person that has nothing of a stock is selling it: whatever
\* it drew was clamped to 0.
C9_Witness ==
    \E p \in People :
        /\ pc[p] = "selling"
        /\ amount[p] = 0
        /\ holdings[p][stock_index[p]] = 0

\* C10 (no lock across suspension): a parked person holds no stock's lock, a
\* person holds at most one lock at a time, and only while it is in a
\* critical section of the stock it drew.
C10_NoLockAcrossPark ==
    \A p \in People :
        /\ pc[p] = "park" => \A s \in Stocks : lock[s] # p
        /\ Cardinality({s \in Stocks : lock[s] = p}) <= 1
        /\ \A s \in Stocks :
               lock[s] = p => /\ pc[p] \in {"selling", "buying", "retrying"}
                              /\ stock_index[p] = s

\* C10 witness: while one person is suspended on a stock's queue, another
\* person holds that stock's lock.
C10_Witness ==
    \E p \in People, q \in People :
        /\ p # q
        /\ pc[p] = "park"
        /\ ~token[p]
        /\ lock[stock_index[p]] = q

\* main has called unpark on the handle of p.
ForceWoken(p) ==
    \/ main_pc \in {"tally", "finished"}
    \/ main_pc \in {"unpark", "join"} /\ main_i > p
    \/ main_pc = "join" /\ main_i = p

\* C2 (liveness at shutdown): once main has set the flag and unparked a
\* person, that person eventually returns from its loop, and main's joins all
\* complete.
C2_ShutdownLiveness ==
    /\ \A p \in LivePeople : (ForceWoken(p) ~> pc[p] = "returned")
    /\ should_finish ~> main_pc = "finished"

\* p waits parked on the queue of s and nobody has unparked it.
Waiting(p, s) == pc[p] = "park" /\ ~token[p] /\ stock_index[p] = s

\* a and b both wait on s, and a's request is in front of b's: a got on the
\* queue before b and the queue was never empty since.
Ahead(a, b, s) ==
    /\ Waiting(a, s)
    /\ Waiting(b, s)
    /\ \E i \in DOMAIN queue[s], k \in DOMAIN queue[s] :
           /\ i < k
           /\ queue[s][i].person = a
           /\ queue[s][k].person = b

\* Whoever wakes b in this step has woken a by the end of it.
FifoWake == \A s \in Stocks : \A a \in People, b \in People :
                (Ahead(a, b, s) /\ token'[b]) => token'[a]

\* C4 as claimed (FIFO of every wake): no step unparks a waiting person while
\* a person in front of it on the same queue is left waiting.
C4_FifoEveryWake == [][FifoWake]_vars

\* C4 amended (FIFO of the sellers' wakes): no sell unparks a waiting person
\* while a person in front of it on the same queue is left waiting.
C4_FifoSellerWake ==
    [][(\E p \in People : pc[p] = "selling" /\ pc'[p] # "selling")
           => FifoWake]_vars

\* C4 witness: before the end of the day a seller has unparked the person at
\* the head of a queue and left the person behind it waiting.
C4_Witness ==
    \E s \in Stocks, a \in People, b \in People :
        /\ ~should_finish
        /\ pc[a] = "park" /\ token[a] /\ stock_index[a] = s
        /\ Waiting(b, s)
        /\ queue[s] = <<[person |-> b, amount |-> amount[b]]>>

\* C5 as claimed (every forced wake before any wait): when main waits for a
\* thread to end, it has unparked every thread.
C5_AllWokenBeforeAnyJoin ==
    main_pc = "join" => \A p \in People : ForceWoken(p)

\* C5 amended (shutdown order, handle by handle): main sets the flag before
\* any forced wake; it starts to wait for a thread only by unparking that very
\* thread first, unparks no other thread in that step, and unparks the next
\* thread only when the thread it waited for has returned.
C5_ShutdownOrder ==
    [][/\ (main_pc = "sleep" /\ main_pc' # "sleep")
              => /\ ~should_finish /\ should_finish'
                 /\ token' = token
                 /\ main_pc' = "unpark" /\ main_i' = 1
       /\ (main_pc # "join" /\ main_pc' = "join")
              => /\ main_pc = "unpark"
                 /\ should_finish
                 /\ main_i' = main_i
                 /\ token' = [token EXCEPT ![main_i] = TRUE]
                 /\ \A q \in People : q < main_i => pc[q] = "returned"
       /\ (main_pc = "join" /\ main_pc' # "join")
              => /\ pc[main_i] = "returned"
                 /\ token' = token
                 /\ IF main_i < NUM_PEOPLE
                    THEN main_pc' = "unpark" /\ main_i' = main_i + 1
                    ELSE main_pc' = "tally"]_vars

\* C5 witness: main waits for the second thread while the third is still
\* suspended and has not been unparked.
C5_Witness ==
    /\ main_pc = "join"
    /\ main_i = 2
    /\ \E q \in People : q > main_i /\ pc[q] = "park" /\ ~token[q]

\* C6 as claimed (scenario): the buy of 8 at 10 shares gets on the empty
\* queue and parks; the sell of 5 then makes 15 shares and wakes the buyer;
\* the retry of 8 leaves 7 shares, 13 with the buyer, 0 with the seller.
C6_ScenarioEnqueued ==
    [][/\ (/\ pc[1] = "buying" /\ pc'[1] # "buying"
           /\ amount[1] = 8 /\ shares[1] = 10 /\ queue[1] = << >>)
              => /\ pc'[1] = "park"
                 /\ queue'[1] = <<[person |-> 1, amount |-> 8]>>
                 /\ shares'[1] = 10
       /\ (/\ pc[2] = "selling" /\ pc'[2] # "selling"
           /\ amount[2] = -5 /\ shares[1] = 10
           /\ queue[1] = <<[person |-> 1, amount |-> 8]>>)
              => /\ shares'[1] = 15
                 /\ token'[1]
                 /\ queue'[1] = << >>
       /\ (/\ pc[1] = "retrying" /\ pc'[1] # "retrying"
           /\ amount[1] = 8 /\ shares[1] = 15 /\ holdings[1][1] = 5)
              => /\ shares'[1] = 7
                 /\ holdings'[1][1] = 13
                 /\ holdings'[2][1] = 0
                 /\ shares'[1] + holdings'[1][1] + holdings'[2][1] = 20]_vars

\* C6 amended (scenario): the buy of 8 at 10 shares and an empty queue is
\* served at once (10 >= 8): 2 shares are left, the buyer has 13 and neither
\* queues nor parks; the sell of 5 then makes 7 shares, leaves the seller 0,
\* finds the queue empty and wakes nobody; the total is 20.
C6_ScenarioImmediate ==
    [][/\ (/\ pc[1] = "buying" /\ pc'[1] # "buying"
           /\ amount[1] = 8 /\ shares[1] = 10 /\ queue[1] = << >>
           /\ holdings[1][1] = 5)
              => /\ pc'[1] = "loop"
                 /\ queue'[1] = << >>
                 /\ shares'[1] = 2
                 /\ holdings'[1][1] = 13
                 /\ token' = token
       /\ (/\ pc[2] = "selling" /\ pc'[2] # "selling"
           /\ amount[2] = -5 /\ shares[1] = 2 /\ queue[1] = << >>
           /\ holdings[1][1] = 13 /\ holdings[2][1] = 5)
              => /\ shares'[1] = 7
                 /\ holdings'[2][1] = 0
                 /\ holdings'[1][1] = 13
                 /\ queue'[1] = << >>
                 /\ token' = token
                 /\ shares'[1] + holdings'[1][1] + holdings'[2][1] = 20]_vars

\* C6 witness: both orders are done: 7 shares, 13 and 0, nobody queued or
\* woken.
C6_Witness ==
    /\ pc[1] = "loop" /\ j[1] = 1
    /\ pc[2] = "loop" /\ j[2] = 1
    /\ shares[1] = 7
    /\ holdings[1][1] = 13
    /\ holdings[2][1] = 0
    /\ queue[1] = << >>
    /\ token = [p \in People |-> FALSE]

\* C7 (abandonment scenario): on the stock at 0 shares a buy of 3 on the
\* empty queue gets on the queue and parks; its retry at 0 shares changes
\* neither the shares nor any holdings nor the queue and ends the iteration;
\* after the flag is set the person starts no other order; the total is
\* conserved.
C7_Abandonment ==
    [][\A x \in People :
        /\ (/\ pc[x] = "buying" /\ pc'[x] # "buying"
            /\ amount[x] = 3 /\ shares[1] = 0 /\ queue[1] = << >>)
               => /\ pc'[x] = "park"
                  /\ queue'[1] = <<[person |-> x, amount |-> 3]>>
                  /\ shares' = shares /\ holdings' = holdings
        /\ (/\ pc[x] = "retrying" /\ pc'[x] # "retrying"
            /\ amount[x] = 3 /\ shares[1] = 0)
               => /\ pc'[x] = "loop"
                  /\ j'[x] = j[x] + 1
                  /\ shares' = shares /\ holdings' = holdings
                  /\ queue' = queue
                  /\ TotalShares' + TotalHoldings' = Expected
        /\ (should_finish /\ pc[x] = "loop")
               => /\ pc'[x] \in {"loop", "returned"}
                  /\ queue' = queue \/ pc'[x] = pc[x]]_vars

\* C7 witness: no trade has happened, main has set the flag and unparked the
\* buyer of 3, which has given up and whose request is still on the queue.
C7_Witness ==
    \E x \in People :
        /\ should_finish
        /\ ForceWoken(x)
        /\ pc[x] = "loop" /\ j[x] = 1
        /\ shares[1] = 0
        /\ queue[1] = <<[person |-> x, amount |-> 3]>>
        /\ \A p \in People : holdings[p][1] = NUM_STARTING_SHARES_PERSON

\* C11 as claimed (the flag's lock does not block after the write): while main
\* unparks and joins it holds no write guard, and a person at the head of an
\* iteration can take its read of the flag.
C11_ReadersNotBlocked ==
    main_pc \in {"unpark", "join"} =>
        /\ ~write_guard
        /\ \A p \in People :
               (pc[p] = "loop" /\ j[p] < NUM_ITERATIONS) => ENABLED Iterate(p)

\* C16 (the flag is written once, by main): the flag is false until main's
\* sleep is over and true from then on; the only step that changes it is
\* main's step out of the sleep, which turns it from false to true and moves
\* no person.
C16_FlagWrittenOnce ==
    [][/\ should_finish <=> main_pc # "sleep"
       /\ should_finish' <=> main_pc' # "sleep"
       /\ should_finish => should_finish'
       /\ should_finish' # should_finish
              => /\ ~should_finish /\ should_finish'
                 /\ main_pc = "sleep"
                 /\ pc' = pc]_vars

\* C16 witness: the flag is still true when main has finished, long after
\* the persons moved on.
C16_Witness ==
    /\ should_finish
    /\ main_pc = "finished"
    /\ \E s \in Stocks : shares[s] # NUM_STARTING_SHARES_IN_STOCK_EXCHANGE

\* A person's step through the sell branch: the trade and the scan.
SellStep(p) == pc[p] = "selling" /\ pc'[p] = "loop"

\* The amounts of the first k requests of q, added up.
RECURSIVE PrefixSum(_, _)
PrefixSum(q, k) == IF k = 0 THEN 0 ELSE PrefixSum(q, k - 1) + q[k].amount

\* The length of the longest prefix of q whose requests all fit in sh.
LongestFit(q, sh) ==
    CHOOSE k \in 0 .. Len(q) :
        /\ \A i \in 1 .. k : q[i].amount <= sh
        /\ k = Len(q) \/ q[k + 1].amount > sh

\* After k requests the scan goes no further: none is left, the estimate is
\* used up, or the next one does not fit in sh.
ScanStops(q, sh, k) ==
    \/ k = Len(q)
    \/ sh - PrefixSum(q, k) <= 0
    \/ q[k + 1].amount > sh

\* The first k at which the scan goes no further.
EstimateCut(q, sh) ==
    CHOOSE k \in 0 .. Len(q) :
        ScanStops(q, sh, k) /\ \A i \in 0 .. (k - 1) : ~ScanStops(q, sh, i)

\* The step of seller p takes the first n requests off its stock's queue,
\* unparks their owners and nobody else, and leaves the rest as it was.
WokeExactly(p, n) ==
    LET s == stock_index[p]
        q == queue[s]
    IN /\ queue'[s] = SubSeq(q, n + 1, Len(q))
       /\ \A o \in People :
              token'[o] <=> (token[o] \/ \E i \in 1 .. n : q[i].person = o)

\* C12 as claimed (the extent of the wake scan): a seller's scan wakes exactly
\* the longest prefix of the queue in which every request's amount is at most
\* the shares after the sale, and stops only at the end of the queue or at a
\* front request that does not fit.
C12_LongestPrefix ==
    [][\A p \in People :
           SellStep(p) =>
               WokeExactly(p, LongestFit(queue[stock_index[p]],
                                         shares'[stock_index[p]]))]_vars

\* C12 amended (the scan also stops on its estimate): a seller's scan wakes
\* the requests from the front of the queue while one is left, the running
\* estimate (the shares after the sale less the amounts already woken) is
\* positive and the front request's amount is at most the shares after the
\* sale; it wakes nobody else and the first request it does not wake stays at
\* the front.
C12_PrefixWithinEstimate ==
    [][\A p \in People :
           SellStep(p) =>
               WokeExactly(p, EstimateCut(queue[stock_index[p]],
                                          shares'[stock_index[p]]))]_vars

\* C12 witness: before the end of the day a seller's scan has woken the head
\* of a queue and stopped on its estimate, leaving at the front a waiting
\* request that fits in the shares.
C12_Witness ==
    \E s \in Stocks, a \in People, b \in People :
        /\ ~should_finish
        /\ pc[a] = "park" /\ token[a] /\ stock_index[a] = s
        /\ \A i \in DOMAIN queue[s] : queue[s][i].person # a
        /\ Waiting(b, s)
        /\ Head(queue[s]) = PurchaseRequest(b, amount[b])
        /\ amount[b] <= shares[s]
        /\ lock[s] = NoOne

\* C13 (head-of-line blocking and the scan's frame): a seller's step takes a
\* contiguous prefix off the queue of its stock and unparks the owners of that
\* prefix in queue order, every one of them with an amount that fits; what is
\* left, the first request that did not fit included, keeps its order and
\* nobody in it is unparked; no other queue changes; and the shares change by
\* the sale alone, not by the scan.
C13_PrefixOnlyAndFrame ==
    [][\A p \in People :
           SellStep(p) =>
               LET s == stock_index[p]
                   q == queue[s]
                   n == Len(q) - Len(queue'[s])
                   popped == [i \in 1 .. n |-> q[i].person]
               IN /\ n >= 0
                  /\ WokeExactly(p, n)
                  /\ WakeScan(q, shares'[s], shares'[s], << >>).woken = popped
                  /\ \A i \in 1 .. n : q[i].amount <= shares'[s]
                  /\ \A t \in Stocks \ {s} : queue'[t] = queue[t]
                  /\ shares' = [shares EXCEPT ![s] = @ - amount[p]]]_vars

\* C13 witness: a seller holds the stock's lock and its sale leaves fewer
\* shares than the front request asks for, while the request behind it would
\* fit: the scan it is about to run stops at the front.
C13_Witness ==
    \E p \in People, s \in Stocks :
        /\ pc[p] = "selling" /\ stock_index[p] = s /\ lock[s] = p
        /\ Len(queue[s]) >= 2
        /\ shares[s] - amount[p] > 0
        /\ queue[s][1].amount > shares[s] - amount[p]
        /\ queue[s][2].amount <= shares[s] - amount[p]

\* C14 (one retry for every enqueued order): a person that got on the queue
\* leaves its park only on a wake, of a seller or of main, and only to take
\* the stock's lock again; under that lock it looks at the shares once: with
\* shares >= amount it takes amount from the stock and adds it to its
\* holdings, otherwise it changes neither; either way the queue is left alone,
\* the lock is released, the iteration is counted and the person is at the
\* head of the loop, where the flag is read.
C14_OneRetry ==
    [][\A p \in People :
           LET s == stock_index[p] IN
           /\ (pc[p] = "park" /\ pc'[p] # "park")
                  => /\ token[p] /\ pc'[p] = "retry"
                     /\ shares' = shares /\ holdings' = holdings
                     /\ queue' = queue /\ j' = j
                     /\ amount'[p] = amount[p] /\ stock_index'[p] = s
           /\ (pc[p] = "retry" /\ pc'[p] # "retry")
                  => /\ pc'[p] = "retrying"
                     /\ lock[s] = NoOne /\ lock'[s] = p
                     /\ shares' = shares /\ holdings' = holdings
                     /\ queue' = queue /\ j' = j
                     /\ amount'[p] = amount[p] /\ stock_index'[p] = s
           /\ (pc[p] = "retrying" /\ pc'[p] # "retrying")
                  => /\ lock[s] = p /\ lock'[s] = NoOne
                     /\ IF shares[s] >= amount[p]
                        THEN /\ shares' = [shares EXCEPT ![s] = @ - amount[p]]
                             /\ holdings' = [holdings EXCEPT
                                                ![p][s] = @ + amount[p]]
                        ELSE shares' = shares /\ holdings' = holdings
                     /\ queue' = queue
                     /\ token' = token
                     /\ pc'[p] = "loop"
                     /\ j'[p] = j[p] + 1]_vars

\* C14 witness: a person whose only order got on a queue was woken by main,
\* with its request still queued, and its one retry bought the shares; it is
\* back at the head of the loop.
C14_Witness ==
    \E p \in People, s \in Stocks :
        /\ ForceWoken(p)
        /\ pc[p] = "loop" /\ j[p] = 1
        /\ \E i \in DOMAIN queue[s] : queue[s][i].person = p
        /\ holdings[p][s] > NUM_STARTING_SHARES_PERSON

\* C15 as claimed (no new order after the flag is set): once the flag is true
\* a person at the head of its loop starts no order, and its check of the
\* flag there can be taken and ends the loop: the step that makes it return
\* is enabled.
C15_StopsAtNextCheck ==
    /\ [][\A p \in People :
              (should_finish /\ pc[p] = "loop")
                  => pc'[p] \in {"loop", "returned"}]_vars
    /\ [](\A p \in People :
              (should_finish /\ pc[p] = "loop")
                  => ENABLED (PersonStep(p) /\ pc'[p] = "returned"))

\* A request of person p is on the queue of stock s.
Queued(p, s) == \E i \in DOMAIN queue[s] : queue[s][i].person = p

\* C17 (no lost wake-up): a person that has released the lock after getting
\* on the queue, and whose request a seller has popped since, has the wake
\* pending whether or not it has suspended yet: its park returns without any
\* further wake and takes it to the retry.  A pending wake is used up by
\* nothing but the return of its owner's own park.
C17_NoLostWakeup ==
    /\ [](\A p \in People :
              (pc[p] = "park" /\ ~Queued(p, stock_index[p]))
                  => /\ token[p]
                     /\ ENABLED (Park(p) /\ pc'[p] = "retry"))
    /\ [][\A p \in People :
              (token[p] /\ ~token'[p])
                  => pc[p] = "park" /\ pc'[p] = "retry"]_vars

\* C17 witness: before the end of the day a seller has popped the one request
\* of a queue and unparked its owner, which has not resumed yet; the lock is
\* free and the shares cover the amount.
C17_Witness ==
    \E p \in People, s \in Stocks :
        /\ ~should_finish
        /\ pc[p] = "park" /\ token[p] /\ stock_index[p] = s
        /\ queue[s] = << >>
        /\ lock[s] = NoOne
        /\ shares[s] >= amount[p]

\* Person o is at the suspension point of the order that request r is for.
ParkedOn(o, r, s) ==
    pc[o] = "park" /\ stock_index[o] = s /\ amount[o] = r.amount

\* Person o is past the one park that main's wake ended.
PastForcedWake(o) ==
    /\ should_finish
    /\ ForceWoken(o)
    /\ pc[o] \in {"retry", "retrying", "loop", "returned"}

\* C18 as claimed (a seller's wake goes to the order it was issued for): when
\* a seller pops a request and wakes its owner, the owner is waiting on that
\* very request or has left its trading loop.
C18_OwnerWaitingOrGone ==
    [][\A p \in People :
           SellStep(p) =>
               LET s == stock_index[p]
                   q == queue[s]
               IN \A i \in 1 .. (Len(q) - Len(queue'[s])) :
                      \/ ParkedOn(q[i].person, q[i], s)
                      \/ pc[q[i].person] = "returned"]_vars

\* C18 amended (no wake ends the park of another order): when a seller pops a
\* request and wakes its owner, the owner is at the park of that very request,
\* or main has set the flag and force-woken the owner out of that park, and
\* the owner, whether it is about to retry, has retried or has returned, never
\* parks again.  Every park that returns was ended by a seller that popped
\* the request of that order or by main's forced wake.
C18_WakeForItsOrder ==
    [][\A p \in People :
           LET s == stock_index[p]
               q == queue[s]
           IN /\ SellStep(p) =>
                     \A i \in 1 .. (Len(q) - Len(queue'[s])) :
                         \/ ParkedOn(q[i].person, q[i], s)
                         \/ PastForcedWake(q[i].person)
              /\ PastForcedWake(p) =>
                     pc'[p] \in {"retry", "retrying", "loop", "returned"}
              /\ (pc[p] = "park" /\ pc'[p] = "retry") =>
                     ~Queued(p, s) \/ ForceWoken(p)]_vars

\* C18 witness: main has force-woken a person whose request is still at the
\* front of the queue, and a seller that holds the lock is about to leave
\* enough shares for it: its scan pops that request and unparks an owner that
\* is no longer parked.
C18_Witness ==
    \E p \in People, o \in People, s \in Stocks :
        /\ pc[p] = "selling" /\ stock_index[p] = s /\ lock[s] = p
        /\ queue[s] # << >>
        /\ Head(queue[s]).person = o
        /\ Head(queue[s]).amount <= shares[s] - amount[p]
        /\ PastForcedWake(o)
        /\ pc[o] \in {"retry", "loop"}

\* The places, over the queues of all stocks, that hold a request of p.
RequestsOf(p) ==
    {sl \in Stocks \X (1 .. NUM_PEOPLE) :
         /\ sl[2] \in DOMAIN queue[sl[1]]
         /\ queue[sl[1]][sl[2]].person = p}

\* C19 (queue well-formedness): at any time a person has at most one request
\* over the queues of all stocks, and every queued request has a positive
\* amount; a person's steps through the sell branch add no request to any
\* queue.
C19_QueueWellFormed ==
    /\ [](\A p \in People : Cardinality(RequestsOf(p)) <= 1)
    /\ [](\A s \in Stocks : Len(queue[s]) <= NUM_PEOPLE)
    /\ [](\A s \in Stocks : \A i \in DOMAIN queue[s] : queue[s][i].amount > 0)
    /\ [][\A p \in People :
              (pc[p] \in {"sell", "selling"} /\ pc'[p] # pc[p])
                  => \A s \in Stocks :
                         /\ Len(queue'[s]) <= Len(queue[s])
                         /\ Range(queue'[s]) \subseteq Range(queue[s])]_vars

\* C19 witness: two people have one request each, on the queues of two
\* stocks, and the owner of one of them has been force-woken and is back at
\* the head of its loop with its request still queued.
C19_Witness ==
    \E p \in People, o \in People, s \in Stocks, u \in Stocks :
        /\ p # o /\ s # u
        /\ Queued(p, s) /\ Queued(o, u)
        /\ pc[p] = "loop" /\ ForceWoken(p)
        /\ pc[o] = "park"

====
